---- MODULE Spec2Model ----
(***************************************************************************)
(* Model of src/picture.rs: the Picture typestate machine                  *)
(* (PictureNew -> PictureBegin -> PictureRender -> PictureEnd ->           *)
(* PictureSync), the Rc-shared Surface, take_surface and the image calls.   *)
(*                                                                         *)
(* A Picture value is identified by a slot 1..MaxPictures; a slot is used  *)
(* once.  The type parameter S of Picture<S, D> is the field "state" of    *)
(* the slot; a method of `impl Picture<PictureX, D>` is an action guarded  *)
(* by state = "PictureX".  A method taking `self` by value that does not   *)
(* hand the Picture back leaves the slot at NoPicture (the Box is freed).  *)
(* The single Display behind every Context is left out.                    *)
(***************************************************************************)
EXTENDS Integers, Sequences, FiniteSets, TLC

\* ---------------------------------------------------------------- bounds
MaxPictures == 2
NumSurfaces == 2
NumBuffers == 2

PictureIds == 1..MaxPictures
SurfaceIds == 1..NumSurfaces
BufferIds == 1..NumBuffers
\* The caller stamps the Picture it creates in slot n; timestamps are opaque to
\* the code, so every Picture gets one no other Picture has.
Timestamps(n) == {40 + n}
\* Likewise the Context handed to Picture::new in slot n (siblings inherit theirs).
Contexts(n) == {10 + n}

\* VAStatus values returned by the native calls.
VA_STATUS_SUCCESS == 0
VAStatus == {VA_STATUS_SUCCESS, 1}

\* ---------------------------------------------------------------- types
PictureStates ==
    {"PictureNew", "PictureBegin", "PictureRender", "PictureEnd", "PictureSync"}

\* impl PictureReclaimableSurface for PictureNew / PictureSync
PictureReclaimableSurface == {"PictureNew", "PictureSync"}

\* A slot holding no Picture value (never created, moved out of, or dropped).
NoPicture ==
    [state |-> "None", timestamp |-> 0, context |-> 0, buffers |-> <<>>, surface |-> 0]

NoCreation == [by |-> "none", timestamp |-> 0, context |-> 0, surface |-> 0]

\* struct PictureInner + PhantomData<S>
PictureInner(st, ts, ctx, bufs, s) ==
    [state |-> st, timestamp |-> ts, context |-> ctx, buffers |-> bufs, surface |-> s]

\* A Buffer object; only its id is visible here.
Buffer(b) == [id |-> b]

VARIABLES
    pictures,     \* slot -> PictureInner record or NoPicture
    nextId,       \* next unused slot
    strong,       \* surface -> strong count of its Rc (0: no Rc)
    surfaces,     \* surface -> "free" (owned Surface value held by the caller),
                  \*            "shared" (inside an Rc), "destroyed"
    freeBuffers,  \* Buffer objects the caller still owns
    ret,          \* the last call, what it returned and the native calls it issued
    open,         \* surface -> number of render sequences begun on it (a successful
                  \*            vaBeginPicture) whose Picture has not synced (history)
    created,      \* live slot -> how the Picture was created (history)
    added,        \* live slot -> buffer ids passed to add_buffer, in call order (history)
    takeFailed    \* the slot a failed take_surface handed back, for as long as the
                  \* caller has since done nothing but release other Pictures on
                  \* its surface, and up to the step after the take_surface that
                  \* consumes it (history)

vars == <<pictures, nextId, strong, surfaces, freeBuffers, ret, open, created, added,
          takeFailed>>

Live(p) == pictures[p].state \in PictureStates

\* ---------------------------------------------------------------- helpers
\* va_check: VAStatus -> Result<(), VaError>
va_check(status) ==
    IF status = VA_STATUS_SUCCESS
    THEN [ok |-> TRUE, err |-> VA_STATUS_SUCCESS]
    ELSE [ok |-> FALSE, err |-> status]

\* `n as i32` for a usize n: values up to i32::MAX are kept, larger ones wrap
\* (written out for the first 2^32 values; TLC's integers end before that).
as_i32(n) ==
    IF n <= 2147483647 THEN n ELSE ((n - 2147483647) - 2147483647) - 2

\* Buffer::as_id_vec(&[Buffer]) -> Vec<VABufferID>
as_id_vec(bufs) == [i \in 1..Len(bufs) |-> bufs[i].id]

\* A native call as the driver sees it.
HwCall(name, args, status) == [call |-> name, args |-> args, status |-> status]

\* The last call: op on the Picture in slot pic, which was a Picture<on, D> when
\* called (new: the slot it fills). ok/err is the Result, out is the value handed back (a
\* Picture slot, or a surface for take_surface's Ok; 0 when nothing is handed back).
Ret(op, p, ok, err, out, calls) ==
    [op |-> op, pic |-> p, on |-> IF p \in PictureIds THEN pictures[p].state ELSE "None",
     ok |-> ok, err |-> err, out |-> out, calls |-> calls]

\* Dropping one Rc<Surface<D>>: the count goes down, the Surface is destroyed
\* with the last reference.
rc_drop_strong_leak(s) == strong
rc_drop_strong(s) == [strong EXCEPT ![s] = @ - 1]
rc_drop_surfaces_early(s) == [surfaces EXCEPT ![s] = "destroyed"]
rc_drop_surfaces(s) ==
    IF strong[s] = 1 THEN [surfaces EXCEPT ![s] = "destroyed"] ELSE surfaces

\* Rc::try_unwrap succeeds iff the strong count is exactly one.
rc_try_unwrap_shared(s) == strong[s] >= 1
rc_try_unwrap(s) == strong[s] = 1

\* The impl blocks: which Picture<S, D> a method exists for.
\* impl<D> Picture<PictureNew, D>
AnyPictureState(p) == Live(p)
SelfIsPictureNew(p) == pictures[p].state = "PictureNew"
\* impl<D> Picture<PictureBegin, D>
SelfIsPictureBegin(p) == pictures[p].state = "PictureBegin"
\* impl<D> Picture<PictureRender, D>
SelfIsPictureRender(p) == pictures[p].state = "PictureRender"
\* impl<D> Picture<PictureEnd, D>
SelfIsPictureEnd(p) == pictures[p].state = "PictureEnd"
\* impl<S: PictureReclaimableSurface, D> Picture<S, D>
SelfIsReclaimable(p) == pictures[p].state \in PictureReclaimableSurface
\* new_from_same_surface<S: PictureReclaimableSurface>(.., picture: &Picture<S, D>)
SourceAnyPictureState(p) == Live(p)
SourceIsReclaimable(p) == pictures[p].state \in PictureReclaimableSurface

\* impl<D> Picture<PictureSync, D>
SelfIsEndOrSync(p) == pictures[p].state \in {"PictureEnd", "PictureSync"}
SelfIsPictureSync(p) == pictures[p].state = "PictureSync"

\* The Box<PictureInner> of slot p is freed: its fields are dropped.
drop_inner(p) ==
    /\ pictures' = [pictures EXCEPT ![p] = NoPicture]
    /\ strong' = rc_drop_strong(pictures[p].surface)
    /\ surfaces' = rc_drop_surfaces(pictures[p].surface)
    /\ created' = [created EXCEPT ![p] = NoCreation]
    /\ added' = [added EXCEPT ![p] = <<>>]
    /\ takeFailed' = {q \in takeFailed \ {p} : pictures[q].surface = pictures[p].surface}

\* The caller takes the Surface for a new Picture from its pool: the free one
\* with the lowest id (surfaces are interchangeable).
PoolSurface ==
    {s \in SurfaceIds : surfaces[s] = "free" /\ \A t \in SurfaceIds : surfaces[t] = "free" => s <= t}

\* ---------------------------------------------------------------- Init
Init ==
    /\ pictures = [p \in PictureIds |-> NoPicture]
    /\ nextId = 1
    /\ strong = [s \in SurfaceIds |-> 0]
    /\ surfaces = [s \in SurfaceIds |-> "free"]
    /\ freeBuffers = BufferIds
    /\ ret = Ret("init", 0, TRUE, VA_STATUS_SUCCESS, 0, <<>>)
    /\ open = [s \in SurfaceIds |-> 0]
    /\ created = [p \in PictureIds |-> NoCreation]
    /\ added = [p \in PictureIds |-> <<>>]
    /\ takeFailed = {}

\* ---------------------------------------------------------------- actions
\* Picture::new wrapping the surface in an Rc that is cloned once too often.
new_extra_clone(timestamp, context, surface) ==
    /\ nextId <= MaxPictures
    /\ surfaces[surface] = "free"
    /\ pictures' = [pictures EXCEPT ![nextId] =
                        PictureInner("PictureNew", timestamp, context, <<>>, surface)]
    /\ strong' = [strong EXCEPT ![surface] = 2]
    /\ surfaces' = [surfaces EXCEPT ![surface] = "shared"]
    /\ created' = [created EXCEPT ![nextId] =
                        [by |-> "new", timestamp |-> timestamp, context |-> context,
                         surface |-> surface]]
    /\ ret' = Ret("new", nextId, TRUE, VA_STATUS_SUCCESS, nextId, <<>>)
    /\ nextId' = nextId + 1
    /\ UNCHANGED <<freeBuffers, open, added>>
    /\ takeFailed' = {}

\* Picture::new(timestamp, context, surface)
new(timestamp, context, surface) ==
    /\ nextId <= MaxPictures
    /\ surfaces[surface] = "free"
    /\ pictures' = [pictures EXCEPT ![nextId] =
                        PictureInner("PictureNew", timestamp, context, <<>>, surface)]
    /\ strong' = [strong EXCEPT ![surface] = 1]
    /\ surfaces' = [surfaces EXCEPT ![surface] = "shared"]
    /\ created' = [created EXCEPT ![nextId] =
                        [by |-> "new", timestamp |-> timestamp, context |-> context,
                         surface |-> surface]]
    /\ ret' = Ret("new", nextId, TRUE, VA_STATUS_SUCCESS, nextId, <<>>)
    /\ nextId' = nextId + 1
    /\ UNCHANGED <<freeBuffers, open, added>>
    /\ takeFailed' = {}

\* new_from_same_surface reaching the surface without Rc::clone.
new_from_same_surface_no_clone(timestamp, picture) ==
    /\ nextId <= MaxPictures
    /\ SourceIsReclaimable(picture)
    /\ LET context == pictures[picture].context
           surface == pictures[picture].surface
       IN /\ pictures' = [pictures EXCEPT ![nextId] =
                            PictureInner("PictureNew", timestamp, context, <<>>, surface)]
          /\ created' = [created EXCEPT ![nextId] =
                            [by |-> "new_from_same_surface", timestamp |-> timestamp,
                             context |-> context, surface |-> surface]]
    /\ ret' = Ret("new_from_same_surface", picture, TRUE, VA_STATUS_SUCCESS, nextId, <<>>)
    /\ nextId' = nextId + 1
    /\ UNCHANGED <<strong, surfaces, freeBuffers, open, added>>
    /\ takeFailed' = {}

\* new_from_same_surface taking the source's timestamp instead of its argument.
new_from_same_surface_source_timestamp(timestamp, picture) ==
    /\ nextId <= MaxPictures
    /\ SourceIsReclaimable(picture)
    /\ LET context == pictures[picture].context
           surface == pictures[picture].surface
       IN /\ pictures' = [pictures EXCEPT ![nextId] =
                            PictureInner("PictureNew", pictures[picture].timestamp,
                                         context, <<>>, surface)]
          /\ strong' = [strong EXCEPT ![surface] = @ + 1]
          /\ created' = [created EXCEPT ![nextId] =
                            [by |-> "new_from_same_surface", timestamp |-> timestamp,
                             context |-> context, surface |-> surface]]
    /\ ret' = Ret("new_from_same_surface", picture, TRUE, VA_STATUS_SUCCESS, nextId, <<>>)
    /\ nextId' = nextId + 1
    /\ UNCHANGED <<surfaces, freeBuffers, open, added>>
    /\ takeFailed' = {}

\* Picture::new_from_same_surface(timestamp, &picture)
new_from_same_surface(timestamp, picture) ==
    /\ nextId <= MaxPictures
    /\ SourceIsReclaimable(picture)
    /\ LET context == pictures[picture].context
           surface == pictures[picture].surface
       IN /\ pictures' = [pictures EXCEPT ![nextId] =
                            PictureInner("PictureNew", timestamp, context, <<>>, surface)]
          /\ strong' = [strong EXCEPT ![surface] = @ + 1]
          /\ created' = [created EXCEPT ![nextId] =
                            [by |-> "new_from_same_surface", timestamp |-> timestamp,
                             context |-> context, surface |-> surface]]
    /\ ret' = Ret("new_from_same_surface", picture, TRUE, VA_STATUS_SUCCESS, nextId, <<>>)
    /\ nextId' = nextId + 1
    /\ UNCHANGED <<surfaces, freeBuffers, open, added>>
    /\ takeFailed' = {}

\* add_buffer inserting at the front instead of pushing.
add_buffer_front(p, buffer) ==
    /\ SelfIsPictureNew(p)
    /\ buffer \in freeBuffers
    /\ pictures' = [pictures EXCEPT ![p].buffers = <<Buffer(buffer)>> \o @]
    /\ freeBuffers' = freeBuffers \ {buffer}
    /\ added' = [added EXCEPT ![p] = Append(@, buffer)]
    /\ ret' = Ret("add_buffer", p, TRUE, VA_STATUS_SUCCESS, 0, <<>>)
    /\ UNCHANGED <<nextId, strong, surfaces, open, created>>
    /\ takeFailed' = {}

\* Picture::add_buffer(&mut self, buffer)
add_buffer(p, buffer) ==
    /\ SelfIsPictureNew(p)
    /\ buffer \in freeBuffers
    /\ pictures' = [pictures EXCEPT ![p].buffers = Append(@, Buffer(buffer))]
    /\ freeBuffers' = freeBuffers \ {buffer}
    /\ added' = [added EXCEPT ![p] = Append(@, buffer)]
    /\ ret' = Ret("add_buffer", p, TRUE, VA_STATUS_SUCCESS, 0, <<>>)
    /\ UNCHANGED <<nextId, strong, surfaces, open, created>>
    /\ takeFailed' = {}

\* begin calling vaBeginPicture a second time when the first call fails.
begin_retries(p, status) ==
    /\ SelfIsPictureNew(p)
    /\ LET inner == pictures[p]
           res == va_check(status)
           call == HwCall("vaBeginPicture", <<inner.context, inner.surface>>, status)
       IN IF res.ok
          THEN /\ pictures' = [pictures EXCEPT ![p].state = "PictureBegin"]
               /\ open' = [open EXCEPT ![inner.surface] = @ + 1]
               /\ ret' = Ret("begin", p, TRUE, VA_STATUS_SUCCESS, p, <<call>>)
               /\ takeFailed' = {}
               /\ UNCHANGED <<strong, surfaces, created, added>>
          ELSE /\ drop_inner(p)
               /\ ret' = Ret("begin", p, FALSE, res.err, 0, <<call, call>>)
               /\ UNCHANGED open
    /\ UNCHANGED <<nextId, freeBuffers>>

\* begin refusing to start while another Picture on the surface is in flight.
begin_serialized(p, status) ==
    /\ SelfIsPictureNew(p)
    /\ \A q \in PictureIds \ {p} :
          pictures[q].surface = pictures[p].surface =>
              pictures[q].state \in PictureReclaimableSurface
    /\ LET inner == pictures[p]
           res == va_check(status)
           call == HwCall("vaBeginPicture", <<inner.context, inner.surface>>, status)
       IN IF res.ok
          THEN /\ pictures' = [pictures EXCEPT ![p].state = "PictureBegin"]
               /\ open' = [open EXCEPT ![inner.surface] = @ + 1]
               /\ ret' = Ret("begin", p, TRUE, VA_STATUS_SUCCESS, p, <<call>>)
               /\ takeFailed' = {}
               /\ UNCHANGED <<strong, surfaces, created, added>>
          ELSE /\ drop_inner(p)
               /\ ret' = Ret("begin", p, FALSE, res.err, 0, <<call>>)
               /\ UNCHANGED open
    /\ UNCHANGED <<nextId, freeBuffers>>

\* Picture::begin(self): vaBeginPicture(display, context, surface)
begin(p, status) ==
    /\ SelfIsPictureNew(p)
    /\ LET inner == pictures[p]
           res == va_check(status)
           call == HwCall("vaBeginPicture", <<inner.context, inner.surface>>, status)
       IN IF res.ok
          THEN /\ pictures' = [pictures EXCEPT ![p].state = "PictureBegin"]
               /\ open' = [open EXCEPT ![inner.surface] = @ + 1]
               /\ ret' = Ret("begin", p, TRUE, VA_STATUS_SUCCESS, p, <<call>>)
               /\ takeFailed' = {}
               /\ UNCHANGED <<strong, surfaces, created, added>>
          ELSE /\ drop_inner(p)
               /\ ret' = Ret("begin", p, FALSE, res.err, 0, <<call>>)
               /\ UNCHANGED open
    /\ UNCHANGED <<nextId, freeBuffers>>

\* render handing the Picture back on failure the way sync does.
render_err_returns_self(p, status) ==
    /\ SelfIsPictureBegin(p)
    /\ LET inner == pictures[p]
           res == va_check(status)
           call == HwCall("vaRenderPicture",
                          <<inner.context, as_id_vec(inner.buffers),
                            as_i32(Len(inner.buffers))>>, status)
       IN IF res.ok
          THEN /\ pictures' = [pictures EXCEPT ![p].state = "PictureRender"]
               /\ ret' = Ret("render", p, TRUE, VA_STATUS_SUCCESS, p, <<call>>)
          ELSE /\ pictures' = pictures
               /\ ret' = Ret("render", p, FALSE, res.err, p, <<call>>)
    /\ UNCHANGED <<nextId, strong, surfaces, created, added, freeBuffers, open>>
    /\ takeFailed' = {}

\* Picture::render(self): vaRenderPicture(display, context, ids, len as i32)
render(p, status) ==
    /\ SelfIsPictureBegin(p)
    /\ LET inner == pictures[p]
           res == va_check(status)
           call == HwCall("vaRenderPicture",
                          <<inner.context, as_id_vec(inner.buffers),
                            as_i32(Len(inner.buffers))>>, status)
       IN IF res.ok
          THEN /\ pictures' = [pictures EXCEPT ![p].state = "PictureRender"]
               /\ ret' = Ret("render", p, TRUE, VA_STATUS_SUCCESS, p, <<call>>)
               /\ takeFailed' = {}
               /\ UNCHANGED <<strong, surfaces, created, added>>
          ELSE /\ drop_inner(p)
               /\ ret' = Ret("render", p, FALSE, res.err, 0, <<call>>)
    /\ UNCHANGED <<nextId, freeBuffers, open>>

\* Picture::end(self): vaEndPicture(display, context)
end(p, status) ==
    /\ SelfIsPictureRender(p)
    /\ LET inner == pictures[p]
           res == va_check(status)
           call == HwCall("vaEndPicture", <<inner.context>>, status)
       IN IF res.ok
          THEN /\ pictures' = [pictures EXCEPT ![p].state = "PictureEnd"]
               /\ ret' = Ret("end", p, TRUE, VA_STATUS_SUCCESS, p, <<call>>)
               /\ takeFailed' = {}
               /\ UNCHANGED <<strong, surfaces, created, added>>
          ELSE /\ drop_inner(p)
               /\ ret' = Ret("end", p, FALSE, res.err, 0, <<call>>)
    /\ UNCHANGED <<nextId, freeBuffers, open>>

\* Surface::sync(&self): vaSyncSurface(display, surface)
surface_sync(status) == va_check(status)

\* sync written like the other transitions: res.map(..), the Picture dropped on Err.
sync_drops_on_err(p, status) ==
    /\ SelfIsPictureEnd(p)
    /\ LET inner == pictures[p]
           res == surface_sync(status)
           call == HwCall("vaSyncSurface", <<inner.surface>>, status)
       IN IF res.ok
          THEN /\ pictures' = [pictures EXCEPT ![p].state = "PictureSync"]
               /\ open' = [open EXCEPT ![inner.surface] = @ - 1]
               /\ ret' = Ret("sync", p, TRUE, VA_STATUS_SUCCESS, p, <<call>>)
               /\ takeFailed' = {}
               /\ UNCHANGED <<strong, surfaces, created, added>>
          ELSE /\ drop_inner(p)
               /\ ret' = Ret("sync", p, FALSE, res.err, 0, <<call>>)
               /\ UNCHANGED open
    /\ UNCHANGED <<nextId, freeBuffers>>

\* Picture::sync(self)
sync(p, status) ==
    /\ SelfIsPictureEnd(p)
    /\ LET inner == pictures[p]
           res == surface_sync(status)
           call == HwCall("vaSyncSurface", <<inner.surface>>, status)
       IN IF res.ok
          THEN /\ pictures' = [pictures EXCEPT ![p].state = "PictureSync"]
               /\ open' = [open EXCEPT ![inner.surface] = @ - 1]
               /\ ret' = Ret("sync", p, TRUE, VA_STATUS_SUCCESS, p, <<call>>)
          ELSE /\ pictures' = pictures
               /\ ret' = Ret("sync", p, FALSE, res.err, p, <<call>>)
               /\ UNCHANGED open
    /\ UNCHANGED <<nextId, strong, surfaces, freeBuffers, created, added>>
    /\ takeFailed' = {}

\* take_surface's Err arm: a new Box<PictureInner> built from the moved fields.
take_surface_err_default_timestamp(inner) ==
    PictureInner(inner.state, 0, inner.context, inner.buffers, inner.surface)
take_surface_err_default_buffers(inner) ==
    PictureInner(inner.state, inner.timestamp, inner.context, <<>>, inner.surface)
take_surface_err(inner) ==
    PictureInner(inner.state, inner.timestamp, inner.context, inner.buffers, inner.surface)

\* Picture::take_surface(self)
take_surface(p) ==
    /\ SelfIsReclaimable(p)
    /\ LET inner == pictures[p]
       IN IF rc_try_unwrap(inner.surface)
          THEN /\ pictures' = [pictures EXCEPT ![p] = NoPicture]
               /\ strong' = [strong EXCEPT ![inner.surface] = 0]
               /\ surfaces' = [surfaces EXCEPT ![inner.surface] = "free"]
               /\ created' = [created EXCEPT ![p] = NoCreation]
               /\ added' = [added EXCEPT ![p] = <<>>]
               /\ ret' = Ret("take_surface", p, TRUE, VA_STATUS_SUCCESS,
                             inner.surface, <<>>)
               /\ takeFailed' = takeFailed \cap {p}
          ELSE /\ pictures' = [pictures EXCEPT ![p] = take_surface_err(inner)]
               /\ ret' = Ret("take_surface", p, FALSE, VA_STATUS_SUCCESS, p, <<>>)
               /\ takeFailed' = {p}
               /\ UNCHANGED <<strong, surfaces, created, added>>
    /\ UNCHANGED <<nextId, freeBuffers, open>>

\* Nothing is returned when a Picture goes out of scope: only that it happened
\* is on record.
Dropped(p) ==
    [op |-> "drop", pic |-> p, on |-> "None", ok |-> TRUE, err |-> VA_STATUS_SUCCESS,
     out |-> 0, calls |-> <<>>]

\* A Picture going out of scope in any state; no native call is made.
drop(p) ==
    /\ Live(p)
    /\ drop_inner(p)
    /\ ret' = Dropped(p)
    /\ UNCHANGED <<nextId, freeBuffers, open>>

\* ---------------------------------------------------------------- images
\* An Image borrows the Picture it was made from and owns its VAImage; what
\* happens to it afterwards is outside picture.rs and is not followed here.
\* Arguments the caller passes to the image calls.
Formats == {"NV12"}
Resolutions == {<<64, 48>>}

\* What vaDestroyImage may answer; the code does not look at it.
DestroyStatus == {VA_STATUS_SUCCESS, 2}

\* image.image_id as vaCreateImage fills it in.
image_id == 1

\* What Image::new may answer: it returns a Result<Image, VaError>.
ImageNewStatus == {VA_STATUS_SUCCESS, 5}

\* Image::new(picture, image, derived, display_resolution) -> Result<Image, VaError>:
\* Ok with the Image (1 a view derived from the surface, 2 an owned copy), which
\* then owns the VAImage, or Err; picture.rs returns either as it is.
image_new(derived, st_new) ==
    IF va_check(st_new).ok
    THEN [ok |-> TRUE, err |-> VA_STATUS_SUCCESS, out |-> IF derived THEN 1 ELSE 2]
    ELSE [ok |-> FALSE, err |-> va_check(st_new).err, out |-> 0]

\* derive_image that also keeps a clone of the surface Rc.
derive_image_clones_surface(p, display_resolution, status, st_new) ==
    /\ SelfIsPictureSync(p)
    /\ LET inner == pictures[p]
           res == va_check(status)
           call == HwCall("vaDeriveImage", <<inner.surface>>, status)
           image == image_new(TRUE, st_new)
       IN IF res.ok
          THEN ret' = Ret("derive_image", p, image.ok, image.err, image.out, <<call>>)
          ELSE ret' = Ret("derive_image", p, FALSE, res.err, 0, <<call>>)
    /\ strong' = [strong EXCEPT ![pictures[p].surface] = @ + 1]
    /\ UNCHANGED <<pictures, nextId, surfaces, freeBuffers, open, created, added>>
    /\ takeFailed' = {}

\* Picture::derive_image(&self, display_resolution): vaDeriveImage(display, surface, &image),
\* left through `?` when it fails, then the Result of Image::new.
derive_image(p, display_resolution, status, st_new) ==
    /\ SelfIsPictureSync(p)
    /\ LET inner == pictures[p]
           res == va_check(status)
           call == HwCall("vaDeriveImage", <<inner.surface>>, status)
           image == image_new(TRUE, st_new)
       IN IF res.ok
          THEN ret' = Ret("derive_image", p, image.ok, image.err, image.out, <<call>>)
          ELSE ret' = Ret("derive_image", p, FALSE, res.err, 0, <<call>>)
    /\ UNCHANGED <<pictures, nextId, strong, surfaces, freeBuffers, open, created, added>>
    /\ takeFailed' = {}

\* create_image returning the copy error without vaDestroyImage.
create_image_leaks(p, format, coded_resolution, display_resolution, st_create, st_get, st_destroy, st_new) ==
    /\ SelfIsPictureSync(p)
    /\ LET inner == pictures[p]
           create == HwCall("vaCreateImage",
                            <<format, as_i32(coded_resolution[1]),
                              as_i32(coded_resolution[2])>>, st_create)
           get == HwCall("vaGetImage",
                         <<inner.surface, 0, 0, coded_resolution[1],
                           coded_resolution[2], image_id>>, st_get)
           image == image_new(FALSE, st_new)
       IN IF ~va_check(st_create).ok
          THEN ret' = Ret("create_image", p, FALSE, va_check(st_create).err, 0,
                          <<create>>)
          ELSE IF va_check(st_get).ok
               THEN ret' = Ret("create_image", p, image.ok, image.err, image.out,
                               <<create, get>>)
               ELSE ret' = Ret("create_image", p, FALSE, va_check(st_get).err, 0,
                               <<create, get>>)
    /\ UNCHANGED <<pictures, nextId, strong, surfaces, freeBuffers, open, created, added>>
    /\ takeFailed' = {}

\* Picture::create_image(&self, format, coded_resolution, display_resolution):
\* vaCreateImage, then vaGetImage on the new image; when the copy fails
\* vaDestroyImage (its status ignored) and the copy's error, otherwise the Result
\* of Image::new.
create_image(p, format, coded_resolution, display_resolution, st_create, st_get, st_destroy, st_new) ==
    /\ SelfIsPictureSync(p)
    /\ LET inner == pictures[p]
           create == HwCall("vaCreateImage",
                            <<format, as_i32(coded_resolution[1]),
                              as_i32(coded_resolution[2])>>, st_create)
           get == HwCall("vaGetImage",
                         <<inner.surface, 0, 0, coded_resolution[1],
                           coded_resolution[2], image_id>>, st_get)
           destroy == HwCall("vaDestroyImage", <<image_id>>, st_destroy)
           image == image_new(FALSE, st_new)
       IN IF ~va_check(st_create).ok
          THEN ret' = Ret("create_image", p, FALSE, va_check(st_create).err, 0,
                          <<create>>)
          ELSE IF va_check(st_get).ok
               THEN ret' = Ret("create_image", p, image.ok, image.err, image.out,
                               <<create, get>>)
               ELSE ret' = Ret("create_image", p, FALSE, va_check(st_get).err, 0,
                               <<create, get, destroy>>)
    /\ UNCHANGED <<pictures, nextId, strong, surfaces, freeBuffers, open, created, added>>
    /\ takeFailed' = {}

\* A status is drawn only for a call that is made: vaGetImage after a successful
\* vaCreateImage, vaDestroyImage after a failed vaGetImage, Image::new after the
\* native calls before it have succeeded.
GetStatus(st_create) ==
    IF va_check(st_create).ok THEN VAStatus ELSE {VA_STATUS_SUCCESS}

DestroyStatusAfter(st_create, st_get) ==
    IF va_check(st_create).ok /\ ~va_check(st_get).ok
    THEN DestroyStatus
    ELSE {VA_STATUS_SUCCESS}

ImageNewStatusAfter(st_create, st_get) ==
    IF va_check(st_create).ok /\ va_check(st_get).ok
    THEN ImageNewStatus
    ELSE {VA_STATUS_SUCCESS}

Next ==
    \/ \E ts \in Timestamps(nextId), c \in Contexts(nextId), s \in PoolSurface : new(ts, c, s)
    \/ \E ts \in Timestamps(nextId), p \in PictureIds : new_from_same_surface(ts, p)
    \/ \E p \in PictureIds, b \in BufferIds : add_buffer(p, b)
    \/ \E p \in PictureIds, st \in VAStatus : begin(p, st)
    \/ \E p \in PictureIds, st \in VAStatus : render(p, st)
    \/ \E p \in PictureIds, st \in VAStatus : end(p, st)
    \/ \E p \in PictureIds, st \in VAStatus : sync(p, st)
    \/ \E p \in PictureIds : take_surface(p)
    \/ \E p \in PictureIds : drop(p)
    \/ \E p \in PictureIds, r \in Resolutions, st \in VAStatus :
          \E sn \in ImageNewStatusAfter(st, VA_STATUS_SUCCESS) : derive_image(p, r, st, sn)
    \/ \E p \in PictureIds, f \in Formats, c \in Resolutions, r \in Resolutions,
          st1 \in VAStatus :
          \E st2 \in GetStatus(st1) : \E st3 \in DestroyStatusAfter(st1, st2) :
              \E sn \in ImageNewStatusAfter(st1, st2) :
                  create_image(p, f, c, r, st1, st2, st3, sn)

Spec == Init /\ [][Next]_vars

\* The caller goes on calling sync on an Ended Picture it holds, and the wait
\* does succeed at some point.
FairSpec == Spec /\ \A p \in PictureIds : WF_vars(sync(p, VA_STATUS_SUCCESS))

TypeOK ==
    /\ nextId \in 1..(MaxPictures + 1)
    /\ \A p \in PictureIds : pictures[p] = NoPicture \/ Live(p)
    /\ \A s \in SurfaceIds : surfaces[s] \in {"free", "shared", "destroyed"}
    /\ freeBuffers \subseteq BufferIds
    /\ takeFailed \subseteq PictureIds

\* ================================================================ claims
Transitions == {"begin", "render", "end", "sync"}

FromState(op) ==
    CASE op = "begin" -> "PictureNew"
      [] op = "render" -> "PictureBegin"
      [] op = "end" -> "PictureRender"
      [] op = "sync" -> "PictureEnd"
      [] OTHER -> "None"

ToState(op) ==
    CASE op = "begin" -> "PictureBegin"
      [] op = "render" -> "PictureRender"
      [] op = "end" -> "PictureEnd"
      [] op = "sync" -> "PictureSync"
      [] OTHER -> "None"

NonReclaimable == PictureStates \ PictureReclaimableSurface

\* The live Pictures whose surface reference is s.
Holders(s) == {q \in PictureIds : Live(q) /\ pictures[q].surface = s}

\* C1: a transition is attempted only in its own state (begin in New, render in
\* Begun, end in Rendering, sync in Ended); a successful one moves the Picture to
\* the next state of the chain; and a Picture's state changes in no other way, so
\* the successful transitions of a Picture are a prefix of begin, render, end, sync.
C1_TransitionsInOrder ==
    [][\A p \in PictureIds :
        /\ (ret'.pic = p /\ ret'.op \in Transitions) =>
              /\ pictures[p].state = FromState(ret'.op)
              /\ ret'.ok => pictures'[p].state = ToState(ret'.op)
        /\ (Live(p) /\ pictures'[p].state \in PictureStates
                /\ pictures'[p].state # pictures[p].state) =>
              /\ ret'.pic = p /\ ret'.op \in Transitions /\ ret'.ok
              /\ pictures[p].state = FromState(ret'.op)
              /\ pictures'[p].state = ToState(ret'.op)]_vars

C1_Witness ==
    /\ ret.op = "sync" /\ ret.ok
    /\ pictures[ret.pic].state = "PictureSync"

\* C2: a step in which take_surface succeeds starts from a state where every live
\* Picture referencing that surface is in New or Synced, and a surface back in the
\* caller's hands is referenced by no Picture that is Begun, Rendering or Ended.
C2_NoReclaimWhileInFlight ==
    [][/\ (ret'.op = "take_surface" /\ ret'.ok /\ ret'.out \in SurfaceIds
              /\ Live(ret'.pic)) =>
            \A q \in Holders(ret'.out) : pictures[q].state \in PictureReclaimableSurface
       /\ \A s \in SurfaceIds : surfaces'[s] = "free" =>
            \A q \in PictureIds :
                pictures'[q].surface = s => pictures'[q].state \notin NonReclaimable]_vars

C2_Witness ==
    /\ ret.op = "take_surface" /\ ~ret.ok
    /\ \E q \in Holders(pictures[ret.pic].surface) :
          q # ret.pic /\ pictures[q].state \in NonReclaimable
    /\ surfaces[pictures[ret.pic].surface] = "shared"

\* C3: when take_surface has succeeded, no render sequence begun on the reclaimed
\* surface is still without its successful sync.
C3_ReclaimedSurfaceNotMidRender ==
    (ret.op = "take_surface" /\ ret.ok) => open[ret.out] = 0

\* C4: take_surface on a Picture in New or Synced returns Ok(surface) and consumes
\* the Picture when the strong count is 1; when it is greater it returns Err with
\* the Picture, whose state, timestamp, context, buffers and surface are as before,
\* and the count is unchanged.
C4_TakeSurfaceByCount ==
    [][\A p \in PictureIds :
        (ret'.op = "take_surface" /\ ret'.pic = p /\ SelfIsReclaimable(p)) =>
            LET s == pictures[p].surface
            IN IF strong[s] = 1
               THEN /\ ret'.ok /\ ret'.out = s
                    /\ pictures'[p] = NoPicture
                    /\ surfaces'[s] = "free"
               ELSE /\ ~ret'.ok /\ ret'.out = p
                    /\ pictures'[p] = pictures[p]
                    /\ strong' = strong /\ surfaces' = surfaces]_vars

C4_Witness ==
    /\ ret.op = "take_surface" /\ ~ret.ok
    /\ pictures[ret.pic].state = "PictureNew"
    /\ Len(pictures[ret.pic].buffers) >= 1
    /\ strong[pictures[ret.pic].surface] = 2

\* C5: a failed sync returns the error with the Picture, still Ended, with the
\* same buffers, timestamp, context and surface; the strong count is unchanged.
C5_SyncFailureKeepsPicture ==
    [][\A p \in PictureIds :
        (ret'.op = "sync" /\ ret'.pic = p /\ ~ret'.ok) =>
            /\ pictures[p].state = "PictureEnd"
            /\ pictures'[p] = pictures[p]
            /\ ret'.out = p /\ ret'.err # VA_STATUS_SUCCESS
            /\ strong' = strong /\ surfaces' = surfaces]_vars

C5_Witness ==
    /\ ret.op = "sync" /\ ~ret.ok
    /\ pictures[ret.pic].state = "PictureEnd"
    /\ Len(pictures[ret.pic].buffers) >= 2

\* C6: new_from_same_surface is performed only on a source in New or Synced; it
\* returns a Picture and raises the strong count of the shared surface by one.
C6_SiblingOnlyFromReclaimable ==
    [][\A p \in PictureIds :
        (ret'.op = "new_from_same_surface" /\ ret'.pic = p /\ ret'.out = nextId) =>
            /\ pictures[p].state \in PictureReclaimableSurface
            /\ ret'.ok
            /\ pictures'[nextId].state = "PictureNew"
            /\ pictures'[nextId].surface = pictures[p].surface
            /\ strong' = [strong EXCEPT ![pictures[p].surface] = @ + 1]]_vars

C6_Witness ==
    /\ ret.op = "new_from_same_surface"
    /\ pictures[ret.pic].state = "PictureSync"
    /\ Live(ret.out)
    /\ strong[pictures[ret.pic].surface] = 2

\* C7: a failed begin, render or end returns no Picture: the slot is freed, the
\* strong count of its surface goes down by one, and nothing is ever done with
\* that Picture again.
C7_FailedTransitionIsTerminal ==
    [][\A p \in PictureIds :
        /\ (ret'.op \in {"begin", "render", "end"} /\ ret'.pic = p /\ ~ret'.ok /\ Live(p)) =>
              /\ pictures'[p] = NoPicture
              /\ ret'.out = 0
              /\ strong' = [strong EXCEPT ![pictures[p].surface] = @ - 1]
        /\ (p < nextId /\ ~Live(p)) =>
              /\ pictures'[p] = NoPicture
              /\ ret'.pic = p => ret' = ret]_vars

C7_Witness ==
    /\ ret.op \in {"begin", "render", "end"} /\ ~ret.ok
    /\ pictures[ret.pic] = NoPicture
    /\ \E s \in SurfaceIds : surfaces[s] = "destroyed"

\* C8: the buffer list of a Picture changes only by add_buffer in state New, which
\* appends one buffer at the end; in every other step of a live Picture (each
\* transition, a failed sync, a failed take_surface) the list stays as it was.
C8_BuffersFrozenAfterNew ==
    [][\A p \in PictureIds :
        (Live(p) /\ pictures'[p].state \in PictureStates
            /\ pictures'[p].buffers # pictures[p].buffers) =>
            /\ pictures[p].state = "PictureNew" /\ pictures'[p].state = "PictureNew"
            /\ ret'.op = "add_buffer" /\ ret'.pic = p
            /\ \E b \in BufferIds :
                  pictures'[p].buffers = Append(pictures[p].buffers, Buffer(b))]_vars

C8_Witness ==
    /\ ret.op = "take_surface" /\ ~ret.ok
    /\ pictures[ret.pic].state = "PictureSync"
    /\ Len(pictures[ret.pic].buffers) >= 2

\* C9: render issues one vaRenderPicture whose buffer ids are the buffers given to
\* add_buffer, in call order, and whose count is their number.
C9_RenderSubmitsAllBuffers ==
    [][\A p \in PictureIds :
        (ret'.op = "render" /\ ret'.pic = p /\ SelfIsPictureBegin(p)) =>
            /\ Len(ret'.calls) = 1
            /\ ret'.calls[1].call = "vaRenderPicture"
            /\ ret'.calls[1].args[2] = added[p]
            /\ ret'.calls[1].args[3] = Len(added[p])]_vars

C9_Witness ==
    /\ ret.op = "render" /\ ret.ok
    /\ ret.calls[1].args[3] = 2
    /\ ret.calls[1].args[2][1] > ret.calls[1].args[2][2]

\* C10: a Picture made by Picture::new that is the only one on its surface and has
\* gone through begin, render, end and sync is Synced with the timestamp it was
\* created with; take_surface on it returns that surface, and afterwards no
\* Picture references the surface.
C10_ChainThenTakeSurface ==
    [][\A p \in PictureIds :
        /\ (ret'.op = "sync" /\ ret'.pic = p /\ ret'.ok /\ SelfIsPictureEnd(p)) =>
              /\ pictures'[p].state = "PictureSync"
              /\ pictures'[p].timestamp = created[p].timestamp
        /\ (ret'.op = "take_surface" /\ ret'.pic = p /\ pictures[p].state = "PictureSync"
                /\ created[p].by = "new" /\ Holders(pictures[p].surface) = {p}) =>
              /\ pictures[p].timestamp = created[p].timestamp
              /\ ret'.ok /\ ret'.out = created[p].surface
              /\ \A q \in PictureIds : pictures'[q].surface # created[p].surface
              /\ strong'[created[p].surface] = 0
              /\ surfaces'[created[p].surface] = "free"]_vars

C10_Witness ==
    /\ ret.op = "take_surface" /\ ret.ok /\ ret.on = "PictureSync"
    /\ Holders(ret.out) = {}
    /\ surfaces[ret.out] = "free"
    /\ nextId = 2 /\ Cardinality(freeBuffers) <= NumBuffers - 2

\* C11: creating a sibling from a Picture in New that holds the only reference
\* makes the strong count 2; and take_surface on a Picture whose surface another
\* live Picture references fails, as often as it is tried, handing the Picture
\* back with every Picture and every count as before.
C11_SiblingsBlockTakeSurface ==
    [][\A p \in PictureIds :
        /\ (ret'.op = "new_from_same_surface" /\ ret'.pic = p /\ ret'.out = nextId
                /\ pictures[p].state = "PictureNew"
                /\ strong[pictures[p].surface] = 1) =>
              strong'[pictures[p].surface] = 2
        /\ (ret'.op = "take_surface" /\ ret'.pic = p /\ Live(p)
                /\ Holders(pictures[p].surface) \ {p} # {}) =>
              /\ ~ret'.ok /\ ret'.out = p
              /\ pictures' = pictures
              /\ strong' = strong /\ surfaces' = surfaces]_vars

C11_Witness ==
    /\ ret.op = "take_surface" /\ ~ret.ok
    /\ created[ret.pic].by = "new_from_same_surface"
    /\ Cardinality(Holders(pictures[ret.pic].surface)) = 2
    /\ \A q \in Holders(pictures[ret.pic].surface) : pictures[q].state = "PictureNew"
    /\ strong[pictures[ret.pic].surface] = 2

\* C12: an image call is made, and vaDeriveImage, vaCreateImage or vaGetImage
\* issued, only on a Picture that is Synced, and leaves it Synced; on a Picture
\* in New, Begun, Rendering or Ended (one that a failed sync handed back
\* included) neither derive_image nor create_image can be called.
ImageOps == {"derive_image", "create_image"}

ImageCalls == {"vaDeriveImage", "vaCreateImage", "vaGetImage", "vaDestroyImage"}

C12_ImagesOnlyFromSynced ==
    /\ (\/ ret.op \in ImageOps
        \/ \E i \in 1..Len(ret.calls) : ret.calls[i].call \in ImageCalls) =>
          /\ ret.op \in ImageOps
          /\ ret.on = "PictureSync"
          /\ pictures[ret.pic].state = "PictureSync"
    /\ \A p \in PictureIds :
          pictures[p].state # "PictureSync" =>
              /\ ~ENABLED (\E r \in Resolutions, st \in VAStatus, sn \in ImageNewStatus :
                              derive_image(p, r, st, sn))
              /\ ~ENABLED (\E f \in Formats, c \in Resolutions, r \in Resolutions,
                              st1 \in VAStatus, st2 \in VAStatus, st3 \in DestroyStatus,
                              sn \in ImageNewStatus :
                                  create_image(p, f, c, r, st1, st2, st3, sn))

C12_Witness ==
    /\ ret.op = "derive_image" /\ ret.ok
    /\ ret.out = image_new(TRUE, VA_STATUS_SUCCESS).out
    /\ ret.calls[1].call = "vaDeriveImage"
    /\ pictures[ret.pic].state = "PictureSync"

\* The image resources a sequence of native calls leaves behind: one for each
\* successful vaCreateImage or vaDeriveImage, less one for each successful
\* vaDestroyImage.
Allocated(calls) ==
    {i \in 1..Len(calls) : /\ calls[i].call \in {"vaCreateImage", "vaDeriveImage"}
                           /\ calls[i].status = VA_STATUS_SUCCESS}

Destroyed(calls) ==
    {i \in 1..Len(calls) : /\ calls[i].call = "vaDestroyImage"
                           /\ calls[i].status = VA_STATUS_SUCCESS}

LiveImages(calls) == Cardinality(Allocated(calls)) - Cardinality(Destroyed(calls))

\* C13 as claimed: whenever create_image fails, as many image resources are live
\* after the call as before it, and when it failed in vaCreateImage or
\* vaGetImage the error is that call's status.
C13_NoLeakOnFailure ==
    (ret.op = "create_image" /\ ~ret.ok) =>
        /\ LiveImages(ret.calls) = 0
        /\ \A i \in 1..Len(ret.calls) :
              (/\ ret.calls[i].call \in {"vaCreateImage", "vaGetImage"}
               /\ ret.calls[i].status # VA_STATUS_SUCCESS) =>
                  ret.err = ret.calls[i].status

\* C13 as amended: a create_image that fails in vaCreateImage issues nothing else
\* and leaves no image resource.  One that fails in vaGetImage issues
\* vaDestroyImage on the image it allocated before it returns, and returns the
\* status of vaGetImage, whatever vaDestroyImage answered; the image is gone
\* exactly when that vaDestroyImage succeeded, its status being discarded.  One
\* whose two calls succeeded and whose Image::new failed returns the error of
\* Image::new and has issued no vaDestroyImage: the image it allocated is left
\* to Image::new.  No failed create_image hands back an Image.
C13_CreateImageReleasesOnCallFailure ==
    (ret.op = "create_image" /\ ~ret.ok) =>
        /\ ret.out = 0
        /\ ret.calls[1].call = "vaCreateImage"
        /\ IF ret.calls[1].status # VA_STATUS_SUCCESS
           THEN /\ Len(ret.calls) = 1
                /\ ret.err = ret.calls[1].status
                /\ LiveImages(ret.calls) = 0
           ELSE /\ Len(ret.calls) >= 2
                /\ ret.calls[2].call = "vaGetImage"
                /\ IF ret.calls[2].status # VA_STATUS_SUCCESS
                   THEN /\ Len(ret.calls) = 3
                        /\ ret.calls[3].call = "vaDestroyImage"
                        /\ ret.calls[3].args = <<ret.calls[2].args[6]>>
                        /\ ret.err = ret.calls[2].status
                        /\ LiveImages(ret.calls) =
                              IF ret.calls[3].status = VA_STATUS_SUCCESS THEN 0 ELSE 1
                   ELSE /\ Len(ret.calls) = 2
                        /\ ret.err \in ImageNewStatus \ {VA_STATUS_SUCCESS}
                        /\ LiveImages(ret.calls) = 1

\* create_image failing in Image::new: both native calls succeeded, nothing is
\* destroyed by create_image, and the error is the one Image::new returned.
C13_ImageNewFailed ==
    /\ ret.op = "create_image" /\ ~ret.ok
    /\ Len(ret.calls) = 2
    /\ ret.err \in ImageNewStatus \ {VA_STATUS_SUCCESS}

\* create_image failing in vaGetImage with the vaDestroyImage it issues failing
\* too: the error returned is still the copy's.
C13_DestroyFailed ==
    /\ ret.op = "create_image" /\ ~ret.ok
    /\ Len(ret.calls) = 3
    /\ ret.calls[3].call = "vaDestroyImage"
    /\ ret.calls[3].status # VA_STATUS_SUCCESS
    /\ ret.err # ret.calls[3].status

C13_Witness ==
    /\ ret.op = "create_image" /\ ~ret.ok
    /\ Len(ret.calls) = 3
    /\ ret.calls[2].call = "vaGetImage" /\ ret.err = ret.calls[2].status
    /\ ret.calls[3].call = "vaDestroyImage"
    /\ ret.calls[3].status = VA_STATUS_SUCCESS
    /\ LiveImages(ret.calls) = 0
    /\ pictures[ret.pic].state = "PictureSync"

\* C14: a failed take_surface leaves the Picture with the caller, still in New or
\* Synced and with take_surface callable on it; and when every other Picture on
\* the surface has since been released, take_surface on it succeeds and returns
\* the surface, which is then back in the pool.
C14_TakeSurfaceRetry ==
    /\ []( \A p \in takeFailed :
              (ret.op = "take_surface" /\ ret.ok /\ ret.pic = p)
              \/ (/\ pictures[p].state \in PictureReclaimableSurface
                  /\ ENABLED take_surface(p)) )
    /\ [][\A p \in takeFailed :
            (ret'.op = "take_surface" /\ ret'.pic = p /\ Live(p)
                /\ Holders(pictures[p].surface) = {p}) =>
                  /\ ret'.ok /\ ret'.out = pictures[p].surface
                  /\ pictures'[p] = NoPicture
                  /\ surfaces'[pictures[p].surface] = "free"]_vars

C14_Witness ==
    /\ ret.op = "take_surface" /\ ret.ok
    /\ ret.pic \in takeFailed
    /\ surfaces[ret.out] = "free"
    /\ Holders(ret.out) = {}

\* C15: a failed sync leaves the Picture Ended, however often it fails, with sync
\* callable again; a sync whose wait succeeds makes it Synced; and under FairSpec
\* an Ended Picture that the caller does not drop becomes Synced.
C15_SyncRetryable ==
    /\ [][\A p \in PictureIds :
            (ret'.op = "sync" /\ ret'.pic = p /\ SelfIsPictureEnd(p)) =>
                IF ret'.calls[1].status = VA_STATUS_SUCCESS
                THEN ret'.ok /\ pictures'[p].state = "PictureSync"
                ELSE /\ ~ret'.ok /\ ret'.out = p
                     /\ pictures'[p] = pictures[p]]_vars
    /\ []( \A p \in PictureIds :
              pictures[p].state = "PictureEnd" =>
                  \A st \in VAStatus : ENABLED sync(p, st) )
    /\ \A p \in PictureIds :
          (pictures[p].state = "PictureEnd") ~>
              (pictures[p].state = "PictureSync" \/ (ret.op = "drop" /\ ret.pic = p))

C15_Witness ==
    /\ ret.op = "sync" /\ ~ret.ok
    /\ pictures[ret.pic].state = "PictureEnd"
    /\ ENABLED sync(ret.pic, VA_STATUS_SUCCESS)

\* The native call behind each transition.
NativeCall(op) ==
    CASE op = "begin" -> "vaBeginPicture"
      [] op = "render" -> "vaRenderPicture"
      [] op = "end" -> "vaEndPicture"
      [] op = "sync" -> "vaSyncSurface"
      [] OTHER -> "None"

\* C16: begin, render, end and sync each issue exactly one native call, their
\* own, on a Picture that is in the state the transition starts from (so none on
\* a Picture that a failed begin, render or end consumed); the call succeeds
\* exactly when that call returned VA_STATUS_SUCCESS, and an error carries the
\* status the call returned.
C16_OneCallPerTransition ==
    /\ ret.op \in Transitions =>
          /\ Len(ret.calls) = 1
          /\ ret.calls[1].call = NativeCall(ret.op)
          /\ ret.on = FromState(ret.op)
          /\ ret.ok <=> ret.calls[1].status = VA_STATUS_SUCCESS
          /\ ~ret.ok => ret.err = ret.calls[1].status
          /\ (~ret.ok /\ ret.op # "sync") => pictures[ret.pic] = NoPicture
    /\ \A i \in 1..Len(ret.calls) :
          ret.calls[i].call \in {"vaBeginPicture", "vaRenderPicture", "vaEndPicture",
                                 "vaSyncSurface"} =>
              ret.op \in Transitions /\ ret.calls[i].call = NativeCall(ret.op)

C16_Witness ==
    /\ ret.op = "end" /\ ~ret.ok
    /\ Len(ret.calls) = 1
    /\ ret.calls[1].status = ret.err /\ ret.err # VA_STATUS_SUCCESS
    /\ pictures[ret.pic] = NoPicture

\* C17: whatever the other Pictures on its surface are doing, a Picture in New can
\* begin, one in Begun can render, one in Rendering can end and one in Ended can
\* sync, so two siblings can both be between begin and sync on one surface.
C17_SiblingsNotSerialized ==
    \A p \in PictureIds :
        /\ pictures[p].state = "PictureNew" => ENABLED begin(p, VA_STATUS_SUCCESS)
        /\ pictures[p].state = "PictureBegin" => ENABLED render(p, VA_STATUS_SUCCESS)
        /\ pictures[p].state = "PictureRender" => ENABLED end(p, VA_STATUS_SUCCESS)
        /\ pictures[p].state = "PictureEnd" => ENABLED sync(p, VA_STATUS_SUCCESS)

C17_Witness ==
    \E p \in PictureIds, q \in PictureIds :
        /\ p # q
        /\ pictures[p].surface = pictures[q].surface
        /\ pictures[p].state \in NonReclaimable
        /\ pictures[q].state \in NonReclaimable
        /\ created[q].by = "new_from_same_surface"

\* A sibling made from a Synced Picture is in Rendering while its source is still Synced.
C17_SyncedSourceSiblingMidRender ==
    \E p \in PictureIds, q \in PictureIds :
        /\ pictures[p].surface = pictures[q].surface
        /\ pictures[p].state = "PictureSync"
        /\ pictures[q].state = "PictureRender"
        /\ created[q].by = "new_from_same_surface"

\* C18: new_from_same_surface returns a Picture in New with the timestamp it was
\* given, no buffers, and the context and surface of its source, and changes no
\* other Picture; add_buffer changes the Picture it is called on and no other.
C18_SiblingFieldsAndOwnBuffers ==
    [][\A p \in PictureIds :
        /\ (ret'.op = "new_from_same_surface" /\ ret'.pic = p /\ ret'.out = nextId) =>
              /\ pictures'[nextId] =
                    PictureInner("PictureNew", created'[nextId].timestamp,
                                 pictures[p].context, <<>>, pictures[p].surface)
              /\ created'[nextId].timestamp \in Timestamps(nextId)
              /\ \A q \in PictureIds \ {nextId} : pictures'[q] = pictures[q]
        /\ (ret'.op = "add_buffer" /\ ret'.pic = p /\ SelfIsPictureNew(p)) =>
              /\ \A q \in PictureIds \ {p} : pictures'[q] = pictures[q]
              /\ Len(pictures'[p].buffers) = Len(pictures[p].buffers) + 1]_vars

C18_Witness ==
    /\ ret.op = "add_buffer"
    /\ \E q \in PictureIds :
          /\ q # ret.pic
          /\ pictures[q].surface = pictures[ret.pic].surface
          /\ pictures[q].timestamp # pictures[ret.pic].timestamp
          /\ Len(pictures[q].buffers) = 1
          /\ Len(pictures[ret.pic].buffers) = 1
          /\ pictures[q].buffers # pictures[ret.pic].buffers

\* C19: derive_image and create_image, succeeding or failing, leave every Picture
\* (the one they are called on is Synced) and every strong count as they were; so
\* after a failed derive_image create_image can be called on the same Picture.
C19_ImageCallsKeepPicture ==
    /\ [][\A p \in PictureIds :
            (ret'.op \in ImageOps /\ ret'.pic = p /\ SelfIsPictureSync(p)) =>
                /\ pictures' = pictures
                /\ strong' = strong /\ surfaces' = surfaces]_vars
    /\ []( (ret.op = "derive_image" /\ ~ret.ok) =>
              \A f \in Formats, c \in Resolutions, r \in Resolutions :
                  ENABLED create_image(ret.pic, f, c, r, VA_STATUS_SUCCESS,
                                       VA_STATUS_SUCCESS, VA_STATUS_SUCCESS,
                                       VA_STATUS_SUCCESS) )

C19_Witness ==
    /\ ret.op = "derive_image" /\ ~ret.ok
    /\ pictures[ret.pic].state = "PictureSync"
    /\ Len(pictures[ret.pic].buffers) >= 1
    /\ strong[pictures[ret.pic].surface] = 2

\* C20: the strong count of every surface is the number of live Pictures that
\* reference it; a surface is destroyed or back in the pool only with count
\* zero and is with the Pictures otherwise; and a drop issues no native call.
C20_CountIsLivePictures ==
    /\ \A s \in SurfaceIds :
          /\ strong[s] = Cardinality(Holders(s))
          /\ surfaces[s] = "shared" <=> strong[s] > 0
    /\ ret.op = "drop" => (ret.calls = <<>> /\ pictures[ret.pic] = NoPicture)

C20_Witness ==
    /\ ret.op = "drop"
    /\ nextId = 3
    /\ strong[1] = 1 /\ surfaces[1] = "shared"
    /\ Cardinality(Holders(1)) = 1
    /\ surfaces[2] = "free"
====
